---- MODULE Spec2Model ----
(***************************************************************************)
(* git-shade: synchronisation of git-excluded files through a shared       *)
(* "shade" repository.  Spec covers one project on one machine: its local  *)
(* tree, its subdirectory of the shade repository, the tracked-pattern     *)
(* record (.git/info/exclude), the watermark record (.shade-sync) and the  *)
(* configuration, together with the commands init, add, push, pull and     *)
(* status and the environment (local edits, changes arriving in the shade  *)
(* working tree).  SpecClassify exercises the sync-state classifier on     *)
(* arbitrary inputs, SpecPlan runs pull and push from any state of an      *)
(* initialized project, and SpecProjects follows the configuration and     *)
(* the watermark records when the commands run in several directories.     *)
(* SpecCopy applies the two copy functions of utils/fs.rs to a file system *)
(* of paths, directories and file contents.  SpecScope runs add, push and   *)
(* pull of two projects on one disk, with paths as the commands build and  *)
(* the file system resolves them.                                          *)
(***************************************************************************)
EXTENDS Integers, Sequences, FiniteSets, TLC

\* ---------------------------------------------------------------- bounds
MaxTime == 3
MaxSize == 2
\* files written to the file system before a copy function is applied
MaxCopyFiles == 3

\* the relative paths the model follows: two, so that one file can conflict
\* while the other waits to be copied
Files == {1, 2}
Times == 0..MaxTime
Sizes == 1..MaxSize

\* clock ticks that may pass between the start and the end of one command
Durations == {0, 1}

\* Option<DateTime<Utc>>::None
NoTime == -1

VARIABLES
    now,          \* wall clock: the last time value handed out
    config,       \* Config.projects: sequence of registered project names
    local,        \* project tree: relative path -> [modified, content]
    remote,       \* project's shade subdirectory: relative path -> [modified, content]
    exclude,      \* lines of .git/info/exclude
    tracker,      \* .shade-sync: [last_pull, last_push]
    result,       \* outcome of the last command
    lastOkPull,   \* history: end time of the last non-dry-run pull that returned Ok
    c_local,      \* classifier harness: local_file argument
    c_remote,     \* classifier harness: remote_file argument
    c_last_pull,  \* classifier harness: last_pull argument
    c_state,      \* classifier harness: value returned ("none" before the call)
    p_before,     \* plan harness: local tree, shade subdirectory and outcome
                  \* before the last pull
    d_config,     \* several directories: Config.projects as [name, local_path]
    d_trackers,   \* several directories: .shade-sync records by project name
    d_users,      \* history: per project name, the directories whose commands
                  \* loaded or saved its .shade-sync record
    d_result,     \* several directories: the last command [cwd, name, op, status]
    f_fs,         \* copy functions: file system [files: path -> content, dirs]
    f_before,     \* copy functions: the file system before the last call
    f_call,       \* copy functions: the last call, its arguments and its value
    s_fs,         \* two projects: the disk, resolved path -> content
    s_exclude,    \* two projects: lines of .git/info/exclude by project
    s_call        \* two projects: the last command [op, project, status, fetched, staged]

sysvars == <<now, config, local, remote, exclude, tracker, result, lastOkPull>>
cvars == <<c_local, c_remote, c_last_pull, c_state>>
pvars == <<p_before>>
dvars == <<d_config, d_trackers, d_users, d_result>>
fvars == <<f_fs, f_before, f_call>>
svars == <<s_fs, s_exclude, s_call>>
vars == <<now, config, local, remote, exclude, tracker, result, lastOkPull,
          c_local, c_remote, c_last_pull, c_state, p_before,
          d_config, d_trackers, d_users, d_result,
          f_fs, f_before, f_call,
          s_fs, s_exclude, s_call>>

\* name detect_project_name() yields for the working directory
ProjectName == "proj"

\* ------------------------------------------------------------ sync states
SyncState == {"InSync", "LocalAhead", "RemoteAhead", "Conflict", "LocalOnly", "RemoteOnly"}

\* Option<&FileMetadata>::None
NoMeta == [some |-> FALSE, modified |-> 0, size |-> 0]

\* A file content is identified by the clock reading at which it was first
\* written (one writer per reading); a copy carries the identity along.
\* Byte length of a content: contents written MaxSize readings apart are
\* different bytes of the same length.
SizeOf(content) == 1 + (content % MaxSize)

FileMetadata_from_path(file) ==
    [some |-> TRUE, modified |-> file.modified, size |-> SizeOf(file.content)]

\* variants of detect_sync_state with one decision changed
detect_sync_state_ge(local_file, remote_file, last_pull) ==
    CASE ~local_file.some /\ ~remote_file.some -> "InSync"
      [] local_file.some /\ ~remote_file.some -> "LocalOnly"
      [] ~local_file.some /\ remote_file.some -> "RemoteOnly"
      [] local_file.some /\ remote_file.some /\ last_pull # NoTime ->
            IF local_file.modified = remote_file.modified /\ local_file.size = remote_file.size
            THEN "InSync"
            ELSE LET local_modified_since_pull == local_file.modified >= last_pull
                     remote_modified_since_pull == remote_file.modified >= last_pull
                 IN  (CASE ~local_modified_since_pull /\ ~remote_modified_since_pull -> "InSync"
                        [] local_modified_since_pull /\ ~remote_modified_since_pull -> "LocalAhead"
                        [] ~local_modified_since_pull /\ remote_modified_since_pull -> "RemoteAhead"
                        [] local_modified_since_pull /\ remote_modified_since_pull -> "Conflict")
      [] local_file.some /\ remote_file.some /\ last_pull = NoTime ->
            IF local_file.modified = remote_file.modified /\ local_file.size = remote_file.size
            THEN "InSync"
            ELSE "RemoteAhead"

detect_sync_state_first_sync_local(local_file, remote_file, last_pull) ==
    CASE ~local_file.some /\ ~remote_file.some -> "InSync"
      [] local_file.some /\ ~remote_file.some -> "LocalOnly"
      [] ~local_file.some /\ remote_file.some -> "RemoteOnly"
      [] local_file.some /\ remote_file.some /\ last_pull # NoTime ->
            IF local_file.modified = remote_file.modified /\ local_file.size = remote_file.size
            THEN "InSync"
            ELSE LET local_modified_since_pull == local_file.modified > last_pull
                     remote_modified_since_pull == remote_file.modified > last_pull
                 IN  (CASE ~local_modified_since_pull /\ ~remote_modified_since_pull -> "InSync"
                        [] local_modified_since_pull /\ ~remote_modified_since_pull -> "LocalAhead"
                        [] ~local_modified_since_pull /\ remote_modified_since_pull -> "RemoteAhead"
                        [] local_modified_since_pull /\ remote_modified_since_pull -> "Conflict")
      [] local_file.some /\ remote_file.some /\ last_pull = NoTime ->
            IF local_file.modified = remote_file.modified /\ local_file.size = remote_file.size
            THEN "InSync"
            ELSE IF local_file.modified > remote_file.modified THEN "LocalAhead" ELSE "RemoteAhead"

detect_sync_state_no_shortcut(local_file, remote_file, last_pull) ==
    CASE ~local_file.some /\ ~remote_file.some -> "InSync"
      [] local_file.some /\ ~remote_file.some -> "LocalOnly"
      [] ~local_file.some /\ remote_file.some -> "RemoteOnly"
      [] local_file.some /\ remote_file.some /\ last_pull # NoTime ->
            LET local_modified_since_pull == local_file.modified > last_pull
                remote_modified_since_pull == remote_file.modified > last_pull
            IN  (CASE ~local_modified_since_pull /\ ~remote_modified_since_pull -> "InSync"
                   [] local_modified_since_pull /\ ~remote_modified_since_pull -> "LocalAhead"
                   [] ~local_modified_since_pull /\ remote_modified_since_pull -> "RemoteAhead"
                   [] local_modified_since_pull /\ remote_modified_since_pull -> "Conflict")
      [] local_file.some /\ remote_file.some /\ last_pull = NoTime ->
            IF local_file.modified = remote_file.modified /\ local_file.size = remote_file.size
            THEN "InSync"
            ELSE "RemoteAhead"

detect_sync_state_swapped_only(local_file, remote_file, last_pull) ==
    CASE ~local_file.some /\ ~remote_file.some -> "InSync"
      [] local_file.some /\ ~remote_file.some -> "RemoteOnly"
      [] ~local_file.some /\ remote_file.some -> "LocalOnly"
      [] local_file.some /\ remote_file.some /\ last_pull # NoTime ->
            IF local_file.modified = remote_file.modified /\ local_file.size = remote_file.size
            THEN "InSync"
            ELSE LET local_modified_since_pull == local_file.modified > last_pull
                     remote_modified_since_pull == remote_file.modified > last_pull
                 IN  (CASE ~local_modified_since_pull /\ ~remote_modified_since_pull -> "InSync"
                        [] local_modified_since_pull /\ ~remote_modified_since_pull -> "LocalAhead"
                        [] ~local_modified_since_pull /\ remote_modified_since_pull -> "RemoteAhead"
                        [] local_modified_since_pull /\ remote_modified_since_pull -> "Conflict")
      [] local_file.some /\ remote_file.some /\ last_pull = NoTime ->
            IF local_file.modified = remote_file.modified /\ local_file.size = remote_file.size
            THEN "InSync"
            ELSE "RemoteAhead"

\* variant: two differing files that were never pulled are a conflict
detect_sync_state_first_sync_conflict(local_file, remote_file, last_pull) ==
    CASE ~local_file.some /\ ~remote_file.some -> "InSync"
      [] local_file.some /\ ~remote_file.some -> "LocalOnly"
      [] ~local_file.some /\ remote_file.some -> "RemoteOnly"
      [] local_file.some /\ remote_file.some /\ last_pull # NoTime ->
            IF local_file.modified = remote_file.modified /\ local_file.size = remote_file.size
            THEN "InSync"
            ELSE LET local_modified_since_pull == local_file.modified > last_pull
                     remote_modified_since_pull == remote_file.modified > last_pull
                 IN  (CASE ~local_modified_since_pull /\ ~remote_modified_since_pull -> "InSync"
                        [] local_modified_since_pull /\ ~remote_modified_since_pull -> "LocalAhead"
                        [] ~local_modified_since_pull /\ remote_modified_since_pull -> "RemoteAhead"
                        [] local_modified_since_pull /\ remote_modified_since_pull -> "Conflict")
      [] local_file.some /\ remote_file.some /\ last_pull = NoTime ->
            IF local_file.modified = remote_file.modified /\ local_file.size = remote_file.size
            THEN "InSync"
            ELSE "Conflict"

detect_sync_state(local_file, remote_file, last_pull) ==
    CASE ~local_file.some /\ ~remote_file.some -> "InSync"
      [] local_file.some /\ ~remote_file.some -> "LocalOnly"
      [] ~local_file.some /\ remote_file.some -> "RemoteOnly"
      [] local_file.some /\ remote_file.some /\ last_pull # NoTime ->
            IF local_file.modified = remote_file.modified /\ local_file.size = remote_file.size
            THEN "InSync"
            ELSE LET local_modified_since_pull == local_file.modified > last_pull
                     remote_modified_since_pull == remote_file.modified > last_pull
                 IN  (CASE ~local_modified_since_pull /\ ~remote_modified_since_pull -> "InSync"
                        [] local_modified_since_pull /\ ~remote_modified_since_pull -> "LocalAhead"
                        [] ~local_modified_since_pull /\ remote_modified_since_pull -> "RemoteAhead"
                        [] local_modified_since_pull /\ remote_modified_since_pull -> "Conflict")
      [] local_file.some /\ remote_file.some /\ last_pull = NoTime ->
            IF local_file.modified = remote_file.modified /\ local_file.size = remote_file.size
            THEN "InSync"
            ELSE "RemoteAhead"

\* ------------------------------------------------------------- file trees
\* metadata of path f in a tree, None when the path does not exist
MetaOf(tree, f) ==
    IF f \in DOMAIN tree THEN FileMetadata_from_path(tree[f]) ELSE NoMeta

list_all_files(dir) == DOMAIN dir

\* copies src_tree's file f to the same relative path of dest_tree at time t
copy_file_preserve_structure(src_tree, f, dest_tree, t) ==
    (f :> [modified |-> t, content |-> src_tree[f].content]) @@ dest_tree

RECURSIVE CopyAll(_, _, _, _)
CopyAll(src_tree, fs, dest_tree, t) ==
    IF fs = {} THEN dest_tree
    ELSE LET f == CHOOSE x \in fs : TRUE
         IN  CopyAll(src_tree, fs \ {f}, copy_file_preserve_structure(src_tree, f, dest_tree, t), t)

RemoveFile(tree, f) == [g \in (DOMAIN tree) \ {f} |-> tree[g]]

EmptyTree == [f \in {} |-> 0]

\* --------------------------------------------------------- exclude record
Contains(seq, x) == \E i \in 1..Len(seq) : seq[i] = x

add_to_exclude(lines, patterns) ==
    LET new_patterns == SelectSeq(patterns, LAMBDA p : ~Contains(lines, p))
    IN  lines \o new_patterns

read_exclude(lines) == lines

\* the paths of s in the order the directory walk yields them, taken to be
\* the order of the path names
RECURSIVE WalkOrder(_)
WalkOrder(s) ==
    IF s = {} THEN <<>>
    ELSE LET f == CHOOSE x \in s : \A y \in s : x <= y
         IN  <<f>> \o WalkOrder(s \ {f})

\* ---------------------------------------------------------------- tracker
Tracker_new == [last_pull |-> NoTime, last_push |-> NoTime]

TrackerKeys == {"last_pull", "last_push"}

\* toml::to_string_pretty of a Tracker: a field that is None is left out
toml_to_string(t) == [k \in {x \in TrackerKeys : t[x] # NoTime} |-> t[k]]

\* toml::from_str into a Tracker: a field that is missing is None
toml_from_str(contents) ==
    [k \in TrackerKeys |-> IF k \in DOMAIN contents THEN contents[k] ELSE NoTime]

\* what Tracker::load returns once t has been saved
Tracker_stored(t) == toml_from_str(toml_to_string(t))

\* variant: the record is built afresh instead of loaded
update_pull_fresh(t, utc_now) == [last_pull |-> utc_now, last_push |-> NoTime]

\* variant: the time was read one clock reading before the update
update_pull_stale(t, utc_now) == [t EXCEPT !.last_pull = utc_now - 1]

update_pull(t, utc_now) == [t EXCEPT !.last_pull = utc_now]

\* variant: the record is built afresh instead of loaded
update_push_fresh(t, utc_now) == [last_pull |-> NoTime, last_push |-> utc_now]

update_push(t, utc_now) == [t EXCEPT !.last_push = utc_now]

\* ----------------------------------------------------------------- config
find_project(cfg, name) == Contains(cfg, name)

\* ----------------------------------------------------------------- result
Res(op, status) ==
    [op |-> op, status |-> status, force |-> FALSE, dry_run |-> FALSE,
     conflicts |-> {}, synced |-> {}, git_ran |-> FALSE, git |-> <<>>]

\* ------------------------------------------------------------------ clock
\* every command and every edit happens at a later clock reading than the last
Tick == now < MaxTime /\ now' = now + 1

\* ------------------------------------------------------------------- pull
\* state pull computes for shade file f
PullState(loc, rem, last_pull, f) ==
    detect_sync_state(MetaOf(loc, f), MetaOf(rem, f), last_pull)

\* variant: a file that only the local side modified is recorded as a conflict too
PullConflicts_local_ahead_too(loc, rem, last_pull, force) ==
    {f \in list_all_files(rem) :
        PullState(loc, rem, last_pull, f) \in {"Conflict", "LocalAhead"} /\ ~force}

PullConflicts(loc, rem, last_pull, force) ==
    {f \in list_all_files(rem) : PullState(loc, rem, last_pull, f) = "Conflict" /\ ~force}

\* variant: every shade file that is not InSync is copied
PullFilesToSync_not_in_sync(loc, rem, last_pull, force) ==
    {f \in list_all_files(rem) :
        \/ PullState(loc, rem, last_pull, f) = "Conflict" /\ force
        \/ PullState(loc, rem, last_pull, f) \in {"RemoteAhead", "RemoteOnly", "LocalAhead"}}

PullFilesToSync(loc, rem, last_pull, force) ==
    {f \in list_all_files(rem) :
        \/ PullState(loc, rem, last_pull, f) = "Conflict" /\ force
        \/ PullState(loc, rem, last_pull, f) \in {"RemoteAhead", "RemoteOnly"}}

PullFilesToAddToExclude(loc, rem, last_pull, tracked_patterns) ==
    {f \in list_all_files(rem) :
        /\ PullState(loc, rem, last_pull, f) \in {"RemoteAhead", "RemoteOnly"}
        /\ ~Contains(tracked_patterns, f)}

\* variant: the gate tests the flag the wrong way round
ConflictGate_inverted(conflicts, force) == conflicts # {} /\ force

\* the conflict gate of step 10
ConflictGate(conflicts, force) == conflicts # {} /\ ~force

\* what `git pull` in the shade repository does to the project's subdirectory
\* at time t: it writes a set of files (possibly none) or removes one file
GitFetches == {<<"write", fs>> : fs \in SUBSET Files}
              \cup {<<"remove", {f}>> : f \in Files}

GitPull(rem, fetched, t) ==
    IF fetched[1] = "write"
    THEN [f \in (DOMAIN rem) \cup fetched[2] |->
             IF f \in fetched[2] THEN [modified |-> t, content |-> t] ELSE rem[f]]
    ELSE [f \in (DOMAIN rem) \ fetched[2] |-> rem[f]]

\* variant: the registration check comes after the git pull of step 5
PullNotInitialized_after_git ==
    /\ ~find_project(config, ProjectName)
    /\ Tick
    /\ \E force, dry_run \in BOOLEAN, fetched \in GitFetches :
          /\ remote' = IF ~dry_run THEN GitPull(remote, fetched, now + 1) ELSE remote
          /\ result' = [Res("pull", "NotInitialized") EXCEPT !.force = force,
                                                             !.dry_run = dry_run,
                                                             !.git_ran = ~dry_run]
    /\ UNCHANGED <<config, local, exclude, tracker, lastOkPull>>

PullNotInitialized ==
    /\ ~find_project(config, ProjectName)
    /\ \E force, dry_run \in BOOLEAN :
          result' = [Res("pull", "NotInitialized") EXCEPT !.force = force, !.dry_run = dry_run]
    /\ Tick
    /\ UNCHANGED <<config, local, remote, exclude, tracker, lastOkPull>>

\* step 5: git pull runs only when dry_run is false
\* variant: a dry run runs git pull too
PullRunsGit_always(dry_run) == TRUE

PullRunsGit(dry_run) == ~dry_run

\* the three `!dry_run` guards of steps 11..13
\* variant: a dry run copies the files too
PullCopiesFiles_always(dry_run) == TRUE

PullCopiesFiles(dry_run) == ~dry_run

PullUpdatesExclude(dry_run) == ~dry_run

\* variant: the watermark is written in a dry run too
PullUpdatesTracker_always(dry_run) == TRUE

\* variant: the watermark is never written
PullUpdatesTracker_never(dry_run) == FALSE

PullUpdatesTracker(dry_run) == ~dry_run

\* variant: a failed copy undoes the copies made before it
PullSyncFiles_rollback(loc, rem, files_to_sync, done, t) ==
    IF done = files_to_sync THEN CopyAll(rem, done, loc, t) ELSE loc

\* the copy loop of step 11: the files of done are copied, one after the
\* other, and the first failing copy ends the loop and the pull
PullSyncFiles(loc, rem, files_to_sync, done, t) == CopyAll(rem, done, loc, t)

\* steps 6..13 of pull, on the shade subdirectory rem as left by step 5;
\* t0 is the time of step 5, t1 the time of the copies and of step 13 (the
\* clock reading matters only on the path that copies; the other paths are
\* taken at t1 = t0).  A copy can fail: done is the set of files copied before
\* the failure.
PullBody(force, dry_run, rem, t0, t1) ==
    LET last_pull == tracker.last_pull
        conflicts == PullConflicts(local, rem, last_pull, force)
        files_to_sync == PullFilesToSync(local, rem, last_pull, force)
        to_add == PullFilesToAddToExclude(local, rem, last_pull, read_exclude(exclude))
        R == [Res("pull", "Ok") EXCEPT !.force = force, !.dry_run = dry_run,
                                       !.git_ran = PullRunsGit(dry_run)]
    IN  IF list_all_files(rem) = {}
        THEN /\ t1 = t0
             /\ result' = R
             /\ lastOkPull' = IF dry_run THEN lastOkPull ELSE t0
             /\ UNCHANGED <<local, exclude, tracker>>
        ELSE IF ConflictGate(conflicts, force)
        THEN /\ t1 = t0
             /\ result' = [R EXCEPT !.status = "ConflictDetected", !.conflicts = conflicts]
             /\ UNCHANGED <<local, exclude, tracker, lastOkPull>>
        ELSE IF files_to_sync = {}
        THEN /\ t1 = t0
             /\ result' = R
             /\ lastOkPull' = IF dry_run THEN lastOkPull ELSE t0
             /\ UNCHANGED <<local, exclude, tracker>>
        ELSE \E done \in (IF PullCopiesFiles(dry_run) THEN SUBSET files_to_sync ELSE {files_to_sync}) :
                /\ local' = IF PullCopiesFiles(dry_run)
                             THEN PullSyncFiles(local, rem, files_to_sync, done, t1)
                             ELSE local
                /\ IF done = files_to_sync
                   THEN /\ IF to_add # {} /\ PullUpdatesExclude(dry_run)
                           THEN exclude' = add_to_exclude(exclude, WalkOrder(to_add))
                           ELSE exclude' = exclude
                        /\ tracker' = IF PullUpdatesTracker(dry_run)
                                      THEN Tracker_stored(update_pull(tracker, t1))
                                      ELSE tracker
                        /\ lastOkPull' = IF dry_run THEN lastOkPull ELSE t1
                        /\ result' = [R EXCEPT !.synced = files_to_sync]
                   ELSE /\ result' = [R EXCEPT !.status = "Io", !.synced = done]
                        /\ UNCHANGED <<exclude, tracker, lastOkPull>>

PullGitError ==
    /\ find_project(config, ProjectName)
    /\ \E force, dry_run \in BOOLEAN :
          /\ PullRunsGit(dry_run)
          /\ result' = [Res("pull", "GitError") EXCEPT !.force = force,
                                                       !.dry_run = dry_run,
                                                       !.git_ran = TRUE]
    /\ Tick
    /\ UNCHANGED <<config, local, remote, exclude, tracker, lastOkPull>>

PullRun ==
    /\ find_project(config, ProjectName)
    /\ \E force, dry_run \in BOOLEAN, fetched \in GitFetches, dur \in Durations :
          /\ now + 1 + dur <= MaxTime
          /\ dry_run => dur = 0
          /\ ~PullRunsGit(dry_run) => fetched = <<"write", {}>>
          /\ remote' = IF PullRunsGit(dry_run) THEN GitPull(remote, fetched, now + 1) ELSE remote
          /\ PullBody(force, dry_run, remote', now + 1, now + 1 + dur)
          /\ now' = now + 1 + dur
    /\ UNCHANGED config

Pull == PullNotInitialized \/ PullGitError \/ PullRun

\* ------------------------------------------------------------ environment
\* the user writes a file of the project tree
LocalEdit ==
    /\ Tick
    /\ \E f \in Files :
          local' = (f :> [modified |-> now + 1, content |-> now + 1]) @@ local
    /\ result' = Res("edit", "Ok")
    /\ UNCHANGED <<config, remote, exclude, tracker, lastOkPull>>

\* the shade working tree changes outside a pull of this project
\* (git pull run by hand or by a command of another project)
RemoteUpdate ==
    /\ Tick
    /\ \E fetched \in GitFetches :
          /\ remote' = GitPull(remote, fetched, now + 1)
          /\ remote' # remote
    /\ result' = Res("remote", "Ok")
    /\ UNCHANGED <<config, local, exclude, tracker, lastOkPull>>

\* the user removes a file of the project tree
LocalDelete ==
    /\ Tick
    /\ \E f \in DOMAIN local : local' = RemoveFile(local, f)
    /\ result' = Res("delete", "Ok")
    /\ UNCHANGED <<config, remote, exclude, tracker, lastOkPull>>

\* ------------------------------------------------------------------- init
\* step 5 of init: the name is looked up in the configuration before anything
\* is created
already_initialized_never(cfg, project_name) == FALSE

already_initialized(cfg, project_name) == find_project(cfg, project_name)

InitAlreadyInitialized ==
    /\ already_initialized(config, ProjectName)
    /\ Tick
    /\ result' = Res("init", "AlreadyInitialized")
    /\ UNCHANGED <<config, local, remote, exclude, tracker, lastOkPull>>

\* init registers the project; when the shade subdirectory already holds files
\* and the user confirms, it copies all of them and records them as tracked
InitRun ==
    /\ ~already_initialized(config, ProjectName)
    /\ config' = Append(config, ProjectName)
    /\ tracker' = Tracker_new
    /\ \E should_pull \in BOOLEAN :
          LET existing_files == list_all_files(remote)
          IN  IF existing_files # {} /\ should_pull
              THEN /\ Tick
                   /\ local' = CopyAll(remote, existing_files, local, now + 1)
                   /\ exclude' = add_to_exclude(exclude, WalkOrder(existing_files))
                   /\ result' = [Res("init", "Ok") EXCEPT !.synced = existing_files]
              ELSE /\ result' = Res("init", "Ok")
                   /\ UNCHANGED <<now, local, exclude>>
    /\ UNCHANGED <<remote, lastOkPull>>

InitProject == InitAlreadyInitialized \/ InitRun

\* -------------------------------------------------------------------- add
\* argument lists of add: one or two relative paths of the project tree
AddArgs == {<<f>> : f \in Files} \cup {<<f, g>> : f, g \in Files}

\* index of the first argument whose path does not exist, 0 when all exist
RECURSIVE FirstMissing(_, _, _)
FirstMissing(files, loc, i) ==
    IF i > Len(files) THEN 0
    ELSE IF files[i] \notin DOMAIN loc THEN i
    ELSE FirstMissing(files, loc, i + 1)

\* the shade subdirectory after the loop of step 5 has handled files[i..n]
RECURSIVE AddCopy(_, _, _, _, _, _)
AddCopy(files, i, n, loc, rem, t) ==
    IF i > n THEN rem
    ELSE AddCopy(files, i + 1, n, loc, copy_file_preserve_structure(loc, files[i], rem, t), t)

AddNotInitialized ==
    /\ ~find_project(config, ProjectName)
    /\ Tick
    /\ result' = Res("add", "NotInitialized")
    /\ UNCHANGED <<config, local, remote, exclude, tracker, lastOkPull>>

AddRun ==
    /\ find_project(config, ProjectName)
    /\ Tick
    /\ \E files \in AddArgs :
          LET missing == FirstMissing(files, local, 1)
              handled == IF missing = 0 THEN Len(files) ELSE missing - 1
          IN  /\ remote' = AddCopy(files, 1, handled, local, remote, now + 1)
              /\ IF missing = 0
                 THEN /\ exclude' = add_to_exclude(exclude, files)
                      /\ result' = [Res("add", "Ok") EXCEPT
                                       !.synced = {files[i] : i \in 1..Len(files)}]
                 ELSE /\ exclude' = exclude
                      /\ result' = [Res("add", "FileNotFound") EXCEPT
                                       !.synced = {files[i] : i \in 1..handled}]
    /\ UNCHANGED <<config, local, tracker, lastOkPull>>

Add == AddNotInitialized \/ AddRun

\* ------------------------------------------------------------------- push
\* outcomes of the git commands of step 7: <<git add, git commit, git remote/push>>
\* ("-": the command was not run).  git commit either commits ("ok"), finds
\* nothing to commit ("nothing") or fails otherwise ("fail")
GitOutcomes ==
    {<<"fail", "-", "-">>}
    \cup {<<"ok", c, r>> : c \in {"ok", "nothing", "fail"}, r \in {"-", "none", "ok", "fail"}}

\* what git commit hands back: exit status and the two output streams; git
\* reports "nothing to commit" with a failing exit status and the message on
\* its standard output
CommitOutput(commit) ==
    CASE commit = "ok" -> [success |-> TRUE, stdout |-> "committed", stderr |-> ""]
      [] commit = "nothing" -> [success |-> FALSE, stdout |-> "nothing to commit", stderr |-> ""]
      [] OTHER -> [success |-> FALSE, stdout |-> "", stderr |-> "fatal"]

\* the test of step 7 on the commit output: success, or a failure whose
\* standard error holds one of the two phrases
CommitAccepted(commit_output) ==
    \/ commit_output.success
    \/ commit_output.stderr \in {"nothing to commit", "no changes added"}

\* the git commands push runs: the remote is looked up only after an accepted
\* commit
GitRuns(git) ==
    /\ (git[1] = "ok" /\ CommitAccepted(CommitOutput(git[2]))) <=> git[3] # "-"

\* variant: a repository without remote makes the push fail
PushSucceeds_needs_remote(git) ==
    git[1] = "ok" /\ CommitAccepted(CommitOutput(git[2])) /\ git[3] = "ok"

\* variant: the outcome of git push is not looked at
PushSucceeds_before_push(git) ==
    git[1] = "ok" /\ CommitAccepted(CommitOutput(git[2]))

PushSucceeds(git) ==
    git[1] = "ok" /\ CommitAccepted(CommitOutput(git[2])) /\ git[3] \in {"none", "ok"}

\* variant: the loop stops at the first tracked pattern whose path is missing
PushCopied_stop_at_missing(patterns, loc) ==
    LET missing == FirstMissing(patterns, loc, 1)
        handled == IF missing = 0 THEN Len(patterns) ELSE missing - 1
    IN  {patterns[i] : i \in 1..handled}

\* tracked patterns whose local path exists
PushCopied(patterns, loc) == {patterns[i] : i \in 1..Len(patterns)} \cap DOMAIN loc

PushNotInitialized ==
    /\ ~find_project(config, ProjectName)
    /\ Tick
    /\ result' = Res("push", "NotInitialized")
    /\ UNCHANGED <<config, local, remote, exclude, tracker, lastOkPull>>

PushNoFilesTracked ==
    /\ find_project(config, ProjectName)
    /\ read_exclude(exclude) = <<>>
    /\ Tick
    /\ result' = Res("push", "NoFilesTracked")
    /\ UNCHANGED <<config, local, remote, exclude, tracker, lastOkPull>>

PushRun ==
    /\ find_project(config, ProjectName)
    /\ read_exclude(exclude) # <<>>
    /\ LET copied == PushCopied(read_exclude(exclude), local)
       IN  /\ remote' = CopyAll(local, copied, remote, now + 1)
           /\ IF copied = {}
              THEN /\ Tick
                   /\ result' = Res("push", "Ok")
                   /\ UNCHANGED tracker
              ELSE \E git \in GitOutcomes, dur \in Durations :
                      /\ GitRuns(git)
                      /\ now + 1 + dur <= MaxTime
                      /\ now' = now + 1 + dur
                      /\ IF PushSucceeds(git)
                         THEN /\ tracker' = Tracker_stored(update_push(tracker, now + 1 + dur))
                              /\ result' = [Res("push", "Ok") EXCEPT
                                               !.synced = copied, !.git = git]
                         ELSE /\ dur = 0
                              /\ tracker' = tracker
                              /\ result' = [Res("push", "GitError") EXCEPT
                                               !.synced = copied, !.git = git]
    /\ UNCHANGED <<config, local, exclude, lastOkPull>>

Push == PushNotInitialized \/ PushNoFilesTracked \/ PushRun

\* ----------------------------------------------------------------- status
\* state status computes for tracked pattern f
StatusState(loc, rem, last_pull, f) ==
    detect_sync_state(MetaOf(loc, f), MetaOf(rem, f), last_pull)

\* tracked patterns status reports as conflicts (has_conflicts)
StatusConflicts(loc, rem, last_pull, patterns) ==
    {f \in {patterns[i] : i \in 1..Len(patterns)} :
        StatusState(loc, rem, last_pull, f) = "Conflict"}

StatusNotInitialized ==
    /\ ~find_project(config, ProjectName)
    /\ Tick
    /\ result' = Res("status", "NotInitialized")
    /\ UNCHANGED <<config, local, remote, exclude, tracker, lastOkPull>>

\* variant: status stamps the pull watermark of the record it loaded
StatusRun_update_pull ==
    /\ find_project(config, ProjectName)
    /\ Tick
    /\ LET tracked_patterns == read_exclude(exclude)
       IN  result' = [Res("status", "Ok") EXCEPT
                         !.conflicts = StatusConflicts(local, remote, tracker.last_pull,
                                                       tracked_patterns)]
    /\ tracker' = Tracker_stored(update_pull(tracker, now + 1))
    /\ UNCHANGED <<config, local, remote, exclude, lastOkPull>>

\* status loads the watermark record, classifies every tracked pattern and
\* prints; it writes nothing
StatusRun ==
    /\ find_project(config, ProjectName)
    /\ Tick
    /\ LET tracked_patterns == read_exclude(exclude)
       IN  result' = [Res("status", "Ok") EXCEPT
                         !.conflicts = StatusConflicts(local, remote, tracker.last_pull,
                                                       tracked_patterns)]
    /\ UNCHANGED <<config, local, remote, exclude, tracker, lastOkPull>>

Status == StatusNotInitialized \/ StatusRun

\* what the plan harness remembers of the state a pull started from
Snapshot(loc, rem, res) == [local |-> loc, remote |-> rem, result |-> res]

\* ------------------------------------------------- utils/fs.rs on paths
\* a path is its sequence of components
PathNames == {"p", "q"}

Paths ==
    {<<a>> : a \in PathNames} \cup {<<a, b>> : a, b \in PathNames}
        \cup {<<a, b, c>> : a, b, c \in PathNames}

FileContents == {1, 2}
NoPath == <<>>

\* src_base and dest_base of a call: the project directory and the project's
\* shade subdirectory, in either direction; neither lies inside the other
CopyBasePairs ==
    {<< <<"p">>, <<"q">> >>, << <<"q">>, <<"p">> >>, << <<"p", "p">>, <<"q">> >>}

EmptyFs == [files |-> [x \in {} |-> 0], dirs |-> {}]

\* Path::starts_with: base is a leading run of whole components of path
starts_with(path, base) ==
    Len(base) <= Len(path) /\ SubSeq(path, 1, Len(base)) = base

\* Path::strip_prefix
strip_prefix(path, base) ==
    IF starts_with(path, base)
    THEN [ok |-> TRUE, rel |-> SubSeq(path, Len(base) + 1, Len(path))]
    ELSE [ok |-> FALSE, rel |-> NoPath]

\* Path::join with a relative path
join(base, rel_path) == base \o rel_path

\* Path::parent
parent(path) == SubSeq(path, 1, Len(path) - 1)

\* fs::create_dir_all: every missing directory down to dir is created; a
\* regular file on the way makes it fail, and its own ancestors exist already
create_dir_all(fs, dir) ==
    LET chain == {SubSeq(dir, 1, k) : k \in 1..Len(dir)}
    IN  IF \E a \in chain : a \in DOMAIN fs.files
        THEN [ok |-> FALSE, fs |-> fs]
        ELSE [ok |-> TRUE, fs |-> [fs EXCEPT !.dirs = @ \cup chain]]

\* fs::write after create_dir_all of the parent
fs_write(fs, path, content) ==
    [fs EXCEPT !.files = [x \in DOMAIN fs.files \cup {path} |->
                              IF x = path THEN content ELSE fs.files[x]]]

\* fs::copy: from must be a regular file, to must not be a directory
fs_copy(fs, from, to) ==
    IF from \notin DOMAIN fs.files \/ to \in fs.dirs
    THEN [ok |-> FALSE, fs |-> fs]
    ELSE [ok |-> TRUE, fs |-> fs_write(fs, to, fs.files[from])]

CopyErr(context, fs) == [ok |-> FALSE, err |-> context, dest |-> NoPath, fs |-> fs]

\* the file lands under dest_base by its name alone
copy_file_preserve_structure_flat(fs, src, src_base, dest_base) ==
    LET rel_path == strip_prefix(src, src_base)
    IN  IF ~rel_path.ok THEN CopyErr("Failed to calculate relative path", fs)
        ELSE LET dest == join(dest_base, <<src[Len(src)]>>)
                 made == create_dir_all(fs, parent(dest))
                 copied == fs_copy(made.fs, src, dest)
             IN  IF ~made.ok THEN CopyErr("Failed to create parent directories", made.fs)
                 ELSE IF rel_path.rel = NoPath \/ ~copied.ok
                      THEN CopyErr("Failed to copy", made.fs)
                 ELSE [ok |-> TRUE, err |-> "", dest |-> dest, fs |-> copied.fs]

\* copy_file_preserve_structure on paths.  When src is src_base itself the
\* relative path is empty, dest_base.join("") names a directory and fs::copy
\* cannot write it, after the parent of dest_base was created.
copy_file_preserve_structure_at(fs, src, src_base, dest_base) ==
    LET rel_path == strip_prefix(src, src_base)
    IN  IF ~rel_path.ok THEN CopyErr("Failed to calculate relative path", fs)
        ELSE LET dest == join(dest_base, rel_path.rel)
                 made == create_dir_all(fs, parent(dest))
                 copied == fs_copy(made.fs, src, dest)
             IN  IF ~made.ok THEN CopyErr("Failed to create parent directories", made.fs)
                 ELSE IF rel_path.rel = NoPath \/ ~copied.ok
                      THEN CopyErr("Failed to copy", made.fs)
                 ELSE [ok |-> TRUE, err |-> "", dest |-> dest, fs |-> copied.fs]

\* the entries WalkDir::new(src_dir) yields: src_dir and all below it
WalkDir(fs, src_dir) ==
    {e \in DOMAIN fs.files \cup fs.dirs : starts_with(e, src_dir)}

\* every entry is handed to the copy, directories too
is_file_any(fs, entry) == TRUE

\* entry.file_type().is_file()
is_file(fs, entry) == entry \in DOMAIN fs.files

\* the orders in which a walk may yield the entries of s
WalkDirOrders(s) ==
    {o \in [1..Cardinality(s) -> s] : \A i, j \in 1..Cardinality(s) : o[i] = o[j] => i = j}

\* the loop of copy_dir_preserve_structure from the i-th copied entry on
RECURSIVE CopyEntries(_, _, _, _, _, _)
CopyEntries(fs, order, i, src_base, dest_base, copied_files) ==
    IF i > Len(order)
    THEN [ok |-> TRUE, err |-> "", copied_files |-> copied_files, fs |-> fs]
    ELSE LET copied == copy_file_preserve_structure_at(fs, order[i], src_base, dest_base)
         IN  IF ~copied.ok
             THEN [ok |-> FALSE, err |-> copied.err, copied_files |-> <<>>, fs |-> copied.fs]
             ELSE CopyEntries(copied.fs, order, i + 1, src_base, dest_base,
                              Append(copied_files, copied.dest))

\* the entries of a walk that reach the copy
WalkedFiles(fs, src_dir) == {e \in WalkDir(fs, src_dir) : is_file(fs, e)}

\* copy_dir_preserve_structure; order is the order in which the walk yields
\* the entries that are copied.  A src_dir that does not exist is an error of
\* the walk's first entry.
copy_dir_preserve_structure(fs, src_dir, src_base, dest_base, order) ==
    IF src_dir \notin DOMAIN fs.files \cup fs.dirs
    THEN [ok |-> FALSE, err |-> "walkdir", copied_files |-> <<>>, fs |-> fs]
    ELSE CopyEntries(fs, order, 1, src_base, dest_base, <<>>)

CopyCall(op, src, src_base, dest_base, ok, err, ret) ==
    [op |-> op, src |-> src, src_base |-> src_base, dest_base |-> dest_base,
     ok |-> ok, err |-> err, ret |-> ret]

\* no copy function has been applied
FsIdle ==
    /\ f_fs = EmptyFs
    /\ f_before = EmptyFs
    /\ f_call = CopyCall("none", NoPath, NoPath, NoPath, TRUE, "", <<>>)

\* a file is created, with its parent directories, before any call
FsWrite ==
    /\ f_call.op = "none"
    /\ Cardinality(DOMAIN f_fs.files) < MaxCopyFiles
    /\ \E path \in Paths, content \in FileContents :
          LET made == create_dir_all(f_fs, parent(path))
          IN  /\ path \notin DOMAIN f_fs.files \cup f_fs.dirs
              /\ made.ok
              /\ f_fs' = fs_write(made.fs, path, content)
    /\ UNCHANGED <<f_before, f_call>>

FsCopyFile ==
    /\ f_call.op = "none"
    /\ \E src \in Paths, bases \in CopyBasePairs :
          LET r == copy_file_preserve_structure_at(f_fs, src, bases[1], bases[2])
          IN  /\ f_fs' = r.fs
              /\ f_call' = CopyCall("copy_file", src, bases[1], bases[2], r.ok, r.err,
                                    IF r.ok THEN <<r.dest>> ELSE <<>>)
    /\ f_before' = f_fs

FsCopyDir ==
    /\ f_call.op = "none"
    /\ \E src_dir \in Paths, bases \in CopyBasePairs :
          \E order \in WalkDirOrders(WalkedFiles(f_fs, src_dir)) :
             LET r == copy_dir_preserve_structure(f_fs, src_dir, bases[1], bases[2], order)
             IN  /\ f_fs' = r.fs
                 /\ f_call' = CopyCall("copy_dir", src_dir, bases[1], bases[2], r.ok, r.err,
                                       r.copied_files)
    /\ f_before' = f_fs

\* ------------------------------------------- two projects on one disk
\* a path is its sequence of components; an absolute path starts with "/"
ScopeProjects == {"P", "Q"}
\* content of the files the user writes, and of the files git pull brings
LocalContent == 1
FetchedContent == 2

\* verify_git_repo: the project directory is the current directory
project_path(project_name) == <<"/", "w", project_name>>

\* ShadePaths::project_shade_dir
project_shade_dir(project_name) == <<"/", "s", project_name>>

\* Path::is_absolute
is_absolute(path) == Len(path) > 0 /\ path[1] = "/"

\* the file a path names on disk: the file system follows every ".."
\* component to the parent directory, which none of the Path operations does
RECURSIVE resolve_from(_, _, _)
resolve_from(path, i, acc) ==
    IF i > Len(path) THEN acc
    ELSE IF path[i] = ".."
         THEN resolve_from(path, i + 1, IF Len(acc) > 1 THEN parent(acc) ELSE acc)
         ELSE resolve_from(path, i + 1, Append(acc, path[i]))

resolve(path) == resolve_from(path, 1, <<>>)

\* the files of the disk: file f of each project directory and of each
\* shade subdirectory; a path without file holds NoContent
ScopePaths ==
    {<<"/", "w", n, "f">> : n \in ScopeProjects} \cup {<<"/", "s", n, "f">> : n \in ScopeProjects}

NoContent == 0

\* the files that exist on a disk
ScopeFiles(fs) == {x \in ScopePaths : fs[x] # NoContent}

\* Path::exists
exists(fs, path) == resolve(path) \in ScopeFiles(fs)

\* fs::write and the write half of fs::copy
disk_write(fs, path, content) == [fs EXCEPT ![path] = content]

\* the arguments of add: a file of the project, a file of the directory next
\* to it by a relative path, and the same by an absolute path
AddFiles ==
    {<<"f">>} \cup {<<"..", n, "f">> : n \in ScopeProjects}
              \cup {<<"/", "w", n, "f">> : n \in ScopeProjects}

\* copy_file_preserve_structure on the disk: the relative path is computed
\* on the components, the copy goes where the joined path resolves to
copy_file_on_disk(fs, src, src_base, dest_base) ==
    LET rel_path == strip_prefix(src, src_base)
    IN  IF ~rel_path.ok THEN [ok |-> FALSE, fs |-> fs]
        ELSE IF ~exists(fs, src) THEN [ok |-> FALSE, fs |-> fs]
        ELSE LET dest == resolve(join(dest_base, rel_path.rel))
             IN  [ok |-> TRUE, fs |-> disk_write(fs, dest, fs[resolve(src)])]

ScopeCall(op, project_name, status, fetched, staged) ==
    [op |-> op, project |-> project_name, status |-> status,
     fetched |-> fetched, staged |-> staged]

\* no command has run on the disk
ScopeIdle ==
    /\ s_fs = [x \in ScopePaths |-> NoContent]
    /\ s_exclude = [n \in ScopeProjects |-> <<>>]
    /\ s_call = ScopeCall("none", "-", "Ok", {}, {})

\* the user writes file f of a project directory
ScopeWrite(project_name) ==
    \E content \in {LocalContent} :
       LET path == join(project_path(project_name), <<"f">>)
       IN  /\ s_fs[path] # content
           /\ s_fs' = disk_write(s_fs, path, content)
           /\ s_call' = ScopeCall("write", project_name, "Ok", {}, {})
           /\ UNCHANGED s_exclude

\* add with one argument, run in the directory of project_name
ScopeAdd(project_name) ==
    \E file_path \in AddFiles :
       LET full_path == IF is_absolute(file_path) THEN file_path
                        ELSE join(project_path(project_name), file_path)
           rel_path == strip_prefix(full_path, project_path(project_name))
           copied == copy_file_on_disk(s_fs, full_path, project_path(project_name),
                                       project_shade_dir(project_name))
       IN  IF ~exists(s_fs, full_path)
           THEN /\ s_call' = ScopeCall("add", project_name, "FileNotFound", {}, {})
                /\ UNCHANGED <<s_fs, s_exclude>>
           ELSE IF ~rel_path.ok \/ ~copied.ok
           THEN /\ s_call' = ScopeCall("add", project_name, "NotInsideProject", {}, {})
                /\ UNCHANGED <<s_fs, s_exclude>>
           ELSE /\ s_fs' = copied.fs
                /\ s_exclude' = [s_exclude EXCEPT
                                    ![project_name] = add_to_exclude(@, <<rel_path.rel>>)]
                /\ s_call' = ScopeCall("add", project_name, "Ok", {}, {})

\* the copy loop of push over patterns[i..]
RECURSIVE ScopePushCopy(_, _, _, _)
ScopePushCopy(fs, patterns, i, project_name) ==
    IF i > Len(patterns) THEN fs
    ELSE LET file_path == join(project_path(project_name), patterns[i])
             copied == copy_file_on_disk(fs, file_path, project_path(project_name),
                                         project_shade_dir(project_name))
         IN  ScopePushCopy(IF exists(fs, file_path) THEN copied.fs ELSE fs,
                           patterns, i + 1, project_name)

\* what `git add <project_name>/` stages in the shade repository
GitAdd(fs, project_name) ==
    {x \in ScopeFiles(fs) : starts_with(x, project_shade_dir(project_name))}

\* push run in the directory of project_name, git succeeding
ScopePush(project_name) ==
    LET patterns == read_exclude(s_exclude[project_name])
        copied_count == Cardinality({i \in 1..Len(patterns) :
                           exists(s_fs, join(project_path(project_name), patterns[i]))})
    IN  /\ UNCHANGED s_exclude
        /\ IF patterns = <<>>
           THEN /\ s_call' = ScopeCall("push", project_name, "NoFilesTracked", {}, {})
                /\ UNCHANGED s_fs
           ELSE /\ s_fs' = ScopePushCopy(s_fs, patterns, 1, project_name)
                /\ s_call' = ScopeCall("push", project_name, "Ok", {},
                                       IF copied_count = 0 THEN {}
                                       ELSE GitAdd(s_fs', project_name))

\* the files `git pull` may bring into the shade repository
ScopeShadeFiles == {join(project_shade_dir(n), <<"f">>) : n \in ScopeProjects}

\* a set of paths in some order
RECURSIVE ScopeOrder(_)
ScopeOrder(paths) ==
    IF paths = {} THEN <<>>
    ELSE LET x == CHOOSE y \in paths : TRUE IN <<x>> \o ScopeOrder(paths \ {x})

\* the copy loop of pull over files[i..], paths relative to the shade
\* subdirectory
RECURSIVE ScopePullCopy(_, _, _, _)
ScopePullCopy(fs, files, i, project_name) ==
    IF i > Len(files) THEN fs
    ELSE ScopePullCopy(
            copy_file_on_disk(fs, join(project_shade_dir(project_name), files[i]),
                              project_shade_dir(project_name),
                              project_path(project_name)).fs,
            files, i + 1, project_name)

\* pull run in the directory of project_name: git pull brings fetched into
\* the shade repository, then the files the classification selects are
\* copied and recorded
ScopePull(project_name) ==
    \E fetched \in SUBSET ScopeShadeFiles :
       LET pulled == [x \in ScopePaths |-> IF x \in fetched THEN FetchedContent ELSE s_fs[x]]
           shade_files == {strip_prefix(x, project_shade_dir(project_name)).rel :
                              x \in {y \in ScopeFiles(pulled) :
                                        starts_with(y, project_shade_dir(project_name))}}
       IN  \E files_to_sync \in SUBSET shade_files :
              /\ s_fs' = ScopePullCopy(pulled, ScopeOrder(files_to_sync), 1, project_name)
              /\ s_exclude' = [s_exclude EXCEPT
                                  ![project_name] =
                                      add_to_exclude(@, ScopeOrder(files_to_sync))]
              /\ s_call' = ScopeCall("pull", project_name, "Ok", fetched, {})

\* ---------------------------------------------------- several directories
\* working directories, each a git repository: <<parent, directory name>>
Dirs == {<<"a", "proj">>, <<"b", "proj">>, <<"c", "other">>}

\* Option<String>::None for --name
NoName == "-"

\* values of init's --name
NameOverrides == {NoName, "other"}

ProjectNames == {d[2] : d \in Dirs}

detect_project_name(cwd, name_override) ==
    IF name_override # NoName THEN name_override ELSE cwd[2]

\* the names registered in a configuration
ProjectNamesOf(cfg) == [i \in 1..Len(cfg) |-> cfg[i].name]

add_project(cfg, name, local_path) ==
    Append(cfg, [name |-> name, local_path |-> local_path])

\* metadata/<project_name>/.shade-sync: the record is found by the name alone
shade_sync_file(project_name) == project_name

Tracker_load(trackers, path) ==
    IF path \in DOMAIN trackers THEN trackers[path] ELSE Tracker_new

Tracker_save(trackers, path, t) == (path :> t) @@ trackers

DRes(cwd, name, op, status) == [cwd |-> cwd, name |-> name, op |-> op, status |-> status]

\* cwd's command has loaded or saved the record of project_name
Uses(users, project_name, cwd) ==
    [users EXCEPT ![project_name] = users[project_name] \cup {cwd}]

\* the directories view is not exercised
DirsIdle ==
    /\ d_config = <<>>
    /\ d_trackers = EmptyTree
    /\ d_users = [n \in ProjectNames |-> {}]
    /\ d_result = DRes(<<"-", "-">>, "-", "none", "Ok")

\* init run in cwd, as far as the configuration and the records go
DirInit(cwd) ==
    \E name_override \in NameOverrides :
        LET project_name == detect_project_name(cwd, name_override)
        IN  IF find_project(ProjectNamesOf(d_config), project_name)
            THEN /\ d_result' = DRes(cwd, project_name, "init", "AlreadyInitialized")
                 /\ UNCHANGED <<d_config, d_trackers, d_users>>
            ELSE /\ d_trackers' = Tracker_save(d_trackers, shade_sync_file(project_name),
                                               Tracker_new)
                 /\ d_config' = add_project(d_config, project_name, cwd)
                 /\ d_users' = Uses(d_users, project_name, cwd)
                 /\ d_result' = DRes(cwd, project_name, "init", "Ok")

\* pull run in cwd, as far as the records go: it fails in git pull before the
\* record is loaded, or it loads the record and stops before step 13 (early
\* Ok, conflict, failed copy, dry run), or it reaches step 13
DirPull(cwd) ==
    LET project_name == detect_project_name(cwd, NoName)
        path == shade_sync_file(project_name)
    IN  IF ~find_project(ProjectNamesOf(d_config), project_name)
        THEN /\ d_result' = DRes(cwd, project_name, "pull", "NotInitialized")
             /\ UNCHANGED <<d_config, d_trackers, d_users>>
        ELSE \E outcome \in {"GitError", "Stopped", "Ok"} :
                /\ d_result' = DRes(cwd, project_name, "pull", outcome)
                /\ d_users' = IF outcome = "GitError" THEN d_users
                              ELSE Uses(d_users, project_name, cwd)
                /\ d_trackers' =
                      IF outcome = "Ok"
                      THEN Tracker_save(d_trackers, path,
                                        update_pull(Tracker_load(d_trackers, path), now'))
                      ELSE d_trackers
                /\ UNCHANGED d_config

\* push run in cwd, as far as the records go: it stops before step 8 (nothing
\* tracked, nothing copied, git failure) or reaches it
DirPush(cwd) ==
    LET project_name == detect_project_name(cwd, NoName)
        path == shade_sync_file(project_name)
    IN  IF ~find_project(ProjectNamesOf(d_config), project_name)
        THEN /\ d_result' = DRes(cwd, project_name, "push", "NotInitialized")
             /\ UNCHANGED <<d_config, d_trackers, d_users>>
        ELSE \E outcome \in {"Stopped", "Ok"} :
                /\ d_result' = DRes(cwd, project_name, "push", outcome)
                /\ d_users' = IF outcome = "Ok" THEN Uses(d_users, project_name, cwd)
                              ELSE d_users
                /\ d_trackers' =
                      IF outcome = "Ok"
                      THEN Tracker_save(d_trackers, path,
                                        update_push(Tracker_load(d_trackers, path), now'))
                      ELSE d_trackers
                /\ UNCHANGED d_config

InitProjects ==
    /\ now = 0
    /\ config = <<>>
    /\ local = EmptyTree
    /\ remote = EmptyTree
    /\ exclude = <<>>
    /\ tracker = Tracker_new
    /\ result = Res("none", "Ok")
    /\ lastOkPull = NoTime
    /\ c_local = NoMeta
    /\ c_remote = NoMeta
    /\ c_last_pull = NoTime
    /\ c_state = "none"
    /\ p_before = Snapshot(EmptyTree, EmptyTree, Res("none", "Ok"))
    /\ DirsIdle
    /\ FsIdle
    /\ ScopeIdle

NextProjects ==
    /\ Tick
    /\ \E cwd \in Dirs : DirInit(cwd) \/ DirPull(cwd) \/ DirPush(cwd)
    /\ UNCHANGED <<config, local, remote, exclude, tracker, result, lastOkPull>>
    /\ UNCHANGED <<cvars, pvars, fvars, svars>>

SpecProjects == InitProjects /\ [][NextProjects]_vars

\* --------------------------------------------------------- specifications
Init ==
    /\ now = 0
    /\ config = <<>>
    /\ local = EmptyTree
    /\ remote = EmptyTree
    /\ exclude = <<>>
    /\ tracker = Tracker_new
    /\ result = Res("none", "Ok")
    /\ lastOkPull = NoTime
    /\ c_local = NoMeta
    /\ c_remote = NoMeta
    /\ c_last_pull = NoTime
    /\ c_state = "none"
    /\ p_before = Snapshot(EmptyTree, EmptyTree, Res("none", "Ok"))
    /\ DirsIdle
    /\ FsIdle
    /\ ScopeIdle

\* ------------------------------------------------- classifier on any input
Metas ==
    {NoMeta} \cup {[some |-> TRUE, modified |-> m, size |-> z] : m \in Times, z \in Sizes}

InitClassify ==
    /\ now = 0
    /\ config = <<>>
    /\ local = EmptyTree
    /\ remote = EmptyTree
    /\ exclude = <<>>
    /\ tracker = Tracker_new
    /\ result = Res("none", "Ok")
    /\ lastOkPull = NoTime
    /\ c_local \in Metas
    /\ c_remote \in Metas
    /\ c_last_pull \in {NoTime} \cup Times
    /\ c_state = "none"
    /\ p_before = Snapshot(EmptyTree, EmptyTree, Res("none", "Ok"))
    /\ DirsIdle
    /\ FsIdle
    /\ ScopeIdle

Classify ==
    /\ c_state = "none"
    /\ c_state' = detect_sync_state(c_local, c_remote, c_last_pull)
    /\ UNCHANGED <<c_local, c_remote, c_last_pull>>
    /\ UNCHANGED sysvars
    /\ UNCHANGED pvars
    /\ UNCHANGED dvars
    /\ UNCHANGED fvars
    /\ UNCHANGED svars

NextClassify == Classify

SpecClassify == InitClassify /\ [][NextClassify]_vars

Next ==
    \/ (InitProject /\ UNCHANGED <<cvars, pvars, dvars, fvars, svars>>)
    \/ (LocalEdit /\ UNCHANGED <<cvars, pvars, dvars, fvars, svars>>)
    \/ (RemoteUpdate /\ UNCHANGED <<cvars, pvars, dvars, fvars, svars>>)
    \/ (LocalDelete /\ UNCHANGED <<cvars, pvars, dvars, fvars, svars>>)
    \/ (Add /\ UNCHANGED <<cvars, pvars, dvars, fvars, svars>>)
    \/ (Push /\ UNCHANGED <<cvars, pvars, dvars, fvars, svars>>)
    \/ (Pull /\ UNCHANGED <<cvars, pvars, dvars, fvars, svars>>)
    \/ (Status /\ UNCHANGED <<cvars, pvars, dvars, fvars, svars>>)

Spec == Init /\ [][Next]_vars

\* ------------------------------------------- pull on any state of a project
\* latest clock reading at which the files of the starting state were written
PlanNow == 1

\* a file written at reading content and last copied or written at modified
PlanFileStates ==
    {[modified |-> m, content |-> c] : m \in 0..PlanNow, c \in 0..PlanNow} \ 
    {[modified |-> m, content |-> c] : m \in {0}, c \in 1..PlanNow}

PlanTrees == UNION {[S -> PlanFileStates] : S \in SUBSET Files}

PlanExcludes == {WalkOrder(S) : S \in SUBSET Files}

\* an initialized project in any state: any local tree, any shade
\* subdirectory, any tracked patterns, any watermark
InitPlan ==
    /\ now = MaxTime - 2
    /\ config = <<ProjectName>>
    /\ local \in PlanTrees
    /\ remote \in PlanTrees
    /\ exclude \in PlanExcludes
    /\ tracker \in {[last_pull |-> w, last_push |-> NoTime] : w \in {NoTime} \cup (0..PlanNow)}
    /\ result = Res("none", "Ok")
    /\ lastOkPull = tracker.last_pull
    /\ c_local = NoMeta
    /\ c_remote = NoMeta
    /\ c_last_pull = NoTime
    /\ c_state = "none"
    /\ p_before = Snapshot(EmptyTree, EmptyTree, Res("none", "Ok"))
    /\ DirsIdle
    /\ FsIdle
    /\ ScopeIdle

\* a pull, dry-run or not, and then a second pull, or a pull without force
\* right after a successful push or after a status of the starting state,
\* while nothing new arrives in the shade repository
PlanPull ==
    /\ \/ result.op \in {"none", "pull"}
       \/ result.op = "push" /\ result.status = "Ok"
       \/ result.op = "status" /\ p_before.result.op = "none"
    /\ PullRun
    /\ result.op \in {"push", "status"} => (~result'.force /\ ~result'.dry_run)
    /\ remote' = remote
    /\ p_before' = Snapshot(local, remote, result)

\* a push from the starting state
PlanPush ==
    /\ result.op = "none"
    /\ PushRun
    /\ p_before' = Snapshot(local, remote, result)

\* status from the starting state or right after a successful push
PlanStatus ==
    /\ \/ result.op = "none"
       \/ result.op = "push" /\ result.status = "Ok"
    /\ StatusRun
    /\ p_before' = Snapshot(local, remote, result)

NextPlan ==
    \/ (PlanPull /\ UNCHANGED <<cvars, dvars, fvars, svars>>)
    \/ (PlanPush /\ UNCHANGED <<cvars, dvars, fvars, svars>>)
    \/ (PlanStatus /\ UNCHANGED <<cvars, dvars, fvars, svars>>)

SpecPlan == InitPlan /\ [][NextPlan]_vars

\* ------------------------------------------- copy functions on any tree
InitCopy ==
    /\ now = 0
    /\ config = <<>>
    /\ local = EmptyTree
    /\ remote = EmptyTree
    /\ exclude = <<>>
    /\ tracker = Tracker_new
    /\ result = Res("none", "Ok")
    /\ lastOkPull = NoTime
    /\ c_local = NoMeta
    /\ c_remote = NoMeta
    /\ c_last_pull = NoTime
    /\ c_state = "none"
    /\ p_before = Snapshot(EmptyTree, EmptyTree, Res("none", "Ok"))
    /\ DirsIdle
    /\ FsIdle
    /\ ScopeIdle

NextCopy ==
    \/ (FsWrite /\ UNCHANGED <<sysvars, cvars, pvars, dvars, svars>>)
    \/ (FsCopyFile /\ UNCHANGED <<sysvars, cvars, pvars, dvars, svars>>)
    \/ (FsCopyDir /\ UNCHANGED <<sysvars, cvars, pvars, dvars, svars>>)

SpecCopy == InitCopy /\ [][NextCopy]_vars

\* ------------------------------------------- two projects on one disk
InitScope ==
    /\ now = 0
    /\ config = <<>>
    /\ local = EmptyTree
    /\ remote = EmptyTree
    /\ exclude = <<>>
    /\ tracker = Tracker_new
    /\ result = Res("none", "Ok")
    /\ lastOkPull = NoTime
    /\ c_local = NoMeta
    /\ c_remote = NoMeta
    /\ c_last_pull = NoTime
    /\ c_state = "none"
    /\ p_before = Snapshot(EmptyTree, EmptyTree, Res("none", "Ok"))
    /\ DirsIdle
    /\ FsIdle
    /\ ScopeIdle

NextScope ==
    \E project_name \in ScopeProjects :
       \/ (ScopeWrite(project_name) /\ UNCHANGED <<sysvars, cvars, pvars, dvars, fvars>>)
       \/ (ScopeAdd(project_name) /\ UNCHANGED <<sysvars, cvars, pvars, dvars, fvars>>)
       \/ (ScopePush(project_name) /\ UNCHANGED <<sysvars, cvars, pvars, dvars, fvars>>)
       \/ (ScopePull(project_name) /\ UNCHANGED <<sysvars, cvars, pvars, dvars, fvars>>)

SpecScope == InitScope /\ [][NextScope]_vars

\* ------------------------------------------------ properties: classifier
\* the classifier has been applied to two present snapshots that differ
c_differing ==
    /\ c_state # "none"
    /\ c_local.some /\ c_remote.some
    /\ (c_local.modified # c_remote.modified \/ c_local.size # c_remote.size)

\* C4: for two present snapshots that differ in modified or size and a present
\* watermark W, the classifier returns LocalAhead when only local.modified > W,
\* RemoteAhead when only remote.modified > W, Conflict when both are > W and
\* InSync when both are <= W; a time equal to W is not "modified since".
C4_WatermarkTable ==
    (c_differing /\ c_last_pull # NoTime) =>
        /\ (c_local.modified > c_last_pull /\ c_remote.modified <= c_last_pull)
              => c_state = "LocalAhead"
        /\ (c_local.modified <= c_last_pull /\ c_remote.modified > c_last_pull)
              => c_state = "RemoteAhead"
        /\ (c_local.modified > c_last_pull /\ c_remote.modified > c_last_pull)
              => c_state = "Conflict"
        /\ (c_local.modified <= c_last_pull /\ c_remote.modified <= c_last_pull)
              => c_state = "InSync"

C4_Witness ==
    /\ c_differing
    /\ c_last_pull # NoTime
    /\ c_local.modified = c_last_pull
    /\ c_remote.modified > c_last_pull
    /\ c_state = "RemoteAhead"

\* C5: for two present snapshots that differ and an absent watermark the
\* classifier returns RemoteAhead.
C5_FirstSyncRemoteAhead ==
    (c_differing /\ c_last_pull = NoTime) => c_state = "RemoteAhead"

C5_Witness ==
    /\ c_differing
    /\ c_last_pull = NoTime
    /\ c_local.modified > c_remote.modified
    /\ c_state = "RemoteAhead"

\* C6: two present snapshots with equal modified and equal size are InSync for
\* every watermark, absent or earlier than both modification times included.
C6_EqualSnapshotsInSync ==
    (/\ c_state # "none"
     /\ c_local.some /\ c_remote.some
     /\ c_local.modified = c_remote.modified
     /\ c_local.size = c_remote.size) => c_state = "InSync"

C6_Witness ==
    /\ c_local.some /\ c_remote.some
    /\ c_local.modified = c_remote.modified
    /\ c_local.size = c_remote.size
    /\ c_last_pull # NoTime
    /\ c_last_pull < c_local.modified
    /\ c_state = "InSync"

\* C7: whatever the watermark, (Absent, Absent) is InSync, (Present, Absent) is
\* LocalOnly and (Absent, Present) is RemoteOnly, and every call returns one of
\* the six sync states.
C7_PresenceTableAndTotality ==
    (c_state # "none") =>
        /\ c_state \in SyncState
        /\ (~c_local.some /\ ~c_remote.some) => c_state = "InSync"
        /\ (c_local.some /\ ~c_remote.some) => c_state = "LocalOnly"
        /\ (~c_local.some /\ c_remote.some) => c_state = "RemoteOnly"

C7_Witness ==
    /\ ~c_local.some
    /\ c_remote.some
    /\ c_last_pull # NoTime
    /\ c_state = "RemoteOnly"

\* ------------------------------------------------------ properties: pull
\* the step is a pull that got as far as classifying the shade files
PullClassified ==
    /\ result'.op = "pull"
    /\ result'.status \notin {"NotInitialized", "GitError"}

\* state the pull of this step computed for f: local tree and watermark as
\* before the step, shade subdirectory as left by the step's git pull
StepState(f) == PullState(local, remote', tracker.last_pull, f)

StepConflicts == {f \in DOMAIN remote' : StepState(f) = "Conflict"}

\* the step left local file f exactly as it was
LocalUntouched(f) ==
    /\ (f \in DOMAIN local) <=> (f \in DOMAIN local')
    /\ f \in DOMAIN local => local'[f] = local[f]

\* C1: a pull without force never replaces the content of a local file whose
\* modification time is later than the end of the project's last successful
\* (non-dry-run) pull: the file is still there with the content it had.
C1_NoUnsyncedEditDestroyed ==
    [][(result'.op = "pull" /\ ~result'.force /\ lastOkPull # NoTime) =>
          \A f \in DOMAIN local :
              local[f].modified > lastOkPull =>
                  (f \in DOMAIN local' /\ local'[f].content = local[f].content)]_vars

\* C2: a pull without force that classifies some file as Conflict returns
\* ConflictDetected and leaves the local tree, the tracked-pattern record and
\* the watermark record exactly as they were.
C2_ConflictGateAllOrNothing ==
    [][(PullClassified /\ ~result'.force /\ StepConflicts # {}) =>
          /\ result'.status = "ConflictDetected"
          /\ local' = local
          /\ exclude' = exclude
          /\ tracker' = tracker]_vars

\* a pull without force has just aborted on a conflict while another shade
\* file was waiting to be copied
C2_Witness ==
    /\ result.op = "pull" /\ result.status = "ConflictDetected"
    /\ ~result.force /\ ~result.dry_run
    /\ \E f \in DOMAIN remote :
          PullState(local, remote, tracker.last_pull, f) \in {"RemoteAhead", "RemoteOnly"}

\* C3: the file list of a ConflictDetected error is exactly the set of shade
\* files the pull classified as Conflict.
C3_ConflictListExact ==
    [][(result'.op = "pull" /\ result'.status = "ConflictDetected") =>
          result'.conflicts = StepConflicts]_vars

\* a pull has aborted listing one shade file; another shade file, which also
\* has a local copy, is not listed
C3_Witness ==
    /\ result.op = "pull" /\ result.status = "ConflictDetected"
    /\ Cardinality(result.conflicts) = 1
    /\ (DOMAIN remote \cap DOMAIN local) \ result.conflicts # {}

\* C8: a non-dry-run pull without force that returns Ok has copied remote to
\* local exactly the shade files classified RemoteAhead or RemoteOnly and has
\* left every other local file as it was.
C8_PullCopiesExactlyRemoteSide ==
    [][(result'.op = "pull" /\ result'.status = "Ok"
        /\ ~result'.force /\ ~result'.dry_run) =>
          \A f \in Files :
              IF f \in DOMAIN remote' /\ StepState(f) \in {"RemoteAhead", "RemoteOnly"}
              THEN /\ f \in DOMAIN local'
                   /\ local'[f].content = remote'[f].content
                   /\ local'[f].modified > now
              ELSE LocalUntouched(f)]_vars

\* a pull has copied one file and left a locally newer file, whose content
\* differs from the shade copy, alone
C8_Witness ==
    /\ result.op = "pull" /\ result.status = "Ok"
    /\ ~result.force /\ ~result.dry_run
    /\ result.synced # {}
    /\ \E f \in (DOMAIN local \cap DOMAIN remote) \ result.synced :
          /\ local[f].content # remote[f].content
          /\ local[f].modified > remote[f].modified

\* C9: a forced pull never returns ConflictDetected, and a non-dry-run forced
\* pull that completes handles every file classified Conflict as it handles a
\* RemoteAhead file: local copy overwritten by the remote copy, path in the
\* tracked-pattern record, watermark updated.
C9_ForceTreatsConflictAsRemoteAhead ==
    [][(PullClassified /\ result'.force) =>
          /\ result'.status # "ConflictDetected"
          /\ (~result'.dry_run /\ result'.status = "Ok") =>
                \A f \in StepConflicts :
                    /\ f \in DOMAIN local'
                    /\ local'[f].content = remote'[f].content
                    /\ Contains(exclude', f)
                    /\ tracker'.last_pull = now']_vars

\* C10: a dry-run pull changes no local file, no tracked pattern, neither
\* watermark and no shade file, and does not run git pull.
C10_DryRunChangesNothing ==
    [][(result'.op = "pull" /\ result'.dry_run) =>
          /\ local' = local
          /\ exclude' = exclude
          /\ tracker' = tracker
          /\ remote' = remote
          /\ ~result'.git_ran]_vars

\* a forced dry run has reported a plan that names a file to copy
C10_Witness ==
    /\ result.op = "pull" /\ result.status = "Ok"
    /\ result.dry_run /\ result.force
    /\ result.synced # {}

\* the files the last step wrote in the local tree
StepCopied == {f \in DOMAIN local' : f \notin DOMAIN local \/ local'[f] # local[f]}

\* C11: a real pull that starts from the state a dry-run pull has just
\* reported on (same local tree, same shade subdirectory, same watermark, same
\* force flag) takes the decision the dry run reported: it returns
\* ConflictDetected exactly when the dry run did, with the same conflict list,
\* and when it completes it has copied exactly the files the dry run named.
C11_DryRunPlanIsRealDecision ==
    [][(/\ result.op = "pull" /\ result.dry_run
        /\ result'.op = "pull" /\ ~result'.dry_run
        /\ result'.force = result.force
        /\ remote' = remote) =>
          /\ (result'.status = "ConflictDetected") <=> (result.status = "ConflictDetected")
          /\ result'.conflicts = result.conflicts
          /\ result'.status = "Ok" => StepCopied = result.synced]_vars

\* the files the last pull wrote in the local tree
PlanCopied ==
    {f \in DOMAIN local : f \notin DOMAIN p_before.local \/ local[f] # p_before.local[f]}

\* a real pull has followed a dry run on the same state
PlanReplayed ==
    /\ p_before.result.op = "pull" /\ p_before.result.dry_run
    /\ result.op = "pull" /\ ~result.dry_run
    /\ result.force = p_before.result.force
    /\ remote = p_before.remote

\* a real pull has copied the one file the dry run named and has left the
\* other shade file alone
C11_Witness ==
    /\ PlanReplayed
    /\ result.status = "Ok"
    /\ PlanCopied # {}
    /\ PlanCopied = p_before.result.synced
    /\ PlanCopied # DOMAIN remote

\* a real pull has aborted on the conflict the dry run reported
C11_WitnessConflict ==
    /\ PlanReplayed
    /\ result.status = "ConflictDetected"
    /\ p_before.result.status = "ConflictDetected"
    /\ result.conflicts # {}

\* ------------------------------------------------ properties: watermarks
\* C12: every non-dry-run pull that returns Ok leaves last_pull set to a time
\* not earlier than the start of that pull, however many files it had to copy
\* (none included).
C12_SuccessfulPullSetsWatermark ==
    [][(result'.op = "pull" /\ result'.status = "Ok" /\ ~result'.dry_run) =>
          /\ tracker'.last_pull # NoTime
          /\ tracker'.last_pull >= now + 1]_vars

\* C13: the watermark a successful pull or push records is the clock reading
\* at which the command started, a reading taken before any of its files was
\* classified or copied.
C13_WatermarkIsStartTime ==
    [][(result'.op \in {"pull", "push"} /\ result'.status = "Ok" /\ tracker' # tracker) =>
          /\ result'.op = "pull" => tracker'.last_pull = now + 1
          /\ result'.op = "push" => tracker'.last_push = now + 1]_vars

\* C13 as amended: the watermark a successful pull or push records is the
\* clock reading at the moment the record is updated, at the end of the
\* command: it is not earlier than the start of the command and not earlier
\* than the modification time of any file the command wrote.
C13_WatermarkIsEndTime ==
    [][(result'.op \in {"pull", "push"} /\ result'.status = "Ok" /\ tracker' # tracker) =>
          /\ result'.op = "pull" =>
                /\ tracker'.last_pull = now'
                /\ tracker'.last_pull >= now + 1
                /\ \A f \in StepCopied : local'[f].modified <= tracker'.last_pull
          /\ result'.op = "push" =>
                /\ tracker'.last_push = now'
                /\ tracker'.last_push >= now + 1
                /\ \A f \in result'.synced : remote'[f].modified <= tracker'.last_push]_vars

\* a pull has recorded a watermark later than the reading at which its git
\* pull brought the file it copied
C13_Witness ==
    /\ result.op = "pull" /\ result.status = "Ok" /\ ~result.dry_run
    /\ tracker.last_pull = now
    /\ \E f \in result.synced :
          /\ remote[f].modified < tracker.last_pull
          /\ remote[f].modified > 0
          /\ local[f].modified = tracker.last_pull

\* C14: over every step of init, add, push, pull and status, a watermark that
\* has a value keeps a value and never moves to an earlier time.
C14_WatermarksNeverRegress ==
    [][/\ tracker.last_pull # NoTime =>
              (tracker'.last_pull # NoTime /\ tracker'.last_pull >= tracker.last_pull)
       /\ tracker.last_push # NoTime =>
              (tracker'.last_push # NoTime /\ tracker'.last_push >= tracker.last_push)]_vars

\* a push has rewritten the watermark record of a project whose last_pull was
\* set by an earlier pull
C14_Witness ==
    /\ result.op = "push" /\ result.status = "Ok"
    /\ tracker.last_push = now
    /\ tracker.last_pull # NoTime
    /\ tracker.last_pull < tracker.last_push

\* ------------------------------------------------ properties: projects
\* C15: a pull or push run for one project leaves the watermark record of
\* every other project as it was, and no watermark record is ever loaded or
\* saved by the commands of two different project directories.
C15_WatermarksNotShared ==
    [][/\ \A n \in DOMAIN d_trackers :
              n # d_result'.name =>
                  (n \in DOMAIN d_trackers' /\ d_trackers'[n] = d_trackers[n])
       /\ \A n \in ProjectNames : Cardinality(d_users'[n]) <= 1]_vars

\* ------------------------------------------------------ properties: push
\* the step is a push that got as far as its copy loop
PushCopies ==
    /\ result'.op = "push"
    /\ result'.status \notin {"NotInitialized", "NoFilesTracked"}

\* C16: a push classifies nothing: whatever the state of a file, Conflict and
\* RemoteAhead included, every tracked pattern whose local path exists is
\* copied over the shade copy; the push never returns ConflictDetected; a
\* tracked pattern whose local path is missing is skipped, and the push fails
\* only if a git command fails.
C16_PushConflictBlind ==
    [][PushCopies =>
          /\ \A i \in 1..Len(exclude) :
                exclude[i] \in DOMAIN local =>
                    /\ exclude[i] \in DOMAIN remote'
                    /\ remote'[exclude[i]].content = local[exclude[i]].content
                    /\ remote'[exclude[i]].modified = now + 1
          /\ \A f \in DOMAIN remote :
                (f \notin DOMAIN local \/ ~Contains(exclude, f)) =>
                    (f \in DOMAIN remote' /\ remote'[f] = remote[f])
          /\ result'.status # "ConflictDetected"
          /\ result'.status # "Ok" => ~PushSucceeds(result'.git)]_vars

\* a push has overwritten the shade copy of a file that was in Conflict and
\* has skipped a tracked pattern whose local path is missing
C16_Witness ==
    /\ result.op = "push" /\ result.status = "Ok"
    /\ p_before.result.op = "none"
    /\ \E f \in result.synced :
          /\ PullState(p_before.local, p_before.remote, tracker.last_pull, f) = "Conflict"
          /\ remote[f].content = local[f].content
          /\ remote[f].content # p_before.remote[f].content
    /\ \E i \in 1..Len(exclude) : exclude[i] \notin DOMAIN local

\* C17: every push that returns Ok has run git add and git commit (and git
\* push when a remote is configured) and has persisted a new last_push,
\* however many tracked patterns it skipped because their local path is missing
\* (all of them included).
C17_SuccessfulPushCommitsAndSetsWatermark ==
    [][(result'.op = "push" /\ result'.status = "Ok") =>
          /\ result'.git # <<>>
          /\ tracker'.last_push # NoTime
          /\ tracker'.last_push >= now + 1]_vars

\* C18: when git commit finds nothing to commit, the push does not fail: it
\* goes on to the remote step, returns Ok and updates last_push.
C18_NothingToCommitIsSuccess ==
    [][(result'.op = "push" /\ result'.git # <<>> /\ result'.git[2] = "nothing") =>
          /\ result'.git[3] # "-"
          /\ result'.git[3] \in {"none", "ok"} =>
                (result'.status = "Ok" /\ tracker'.last_push = now')]_vars

\* C19: when the shade repository has no remote, the push skips git push and
\* returns Ok with last_push updated; the shade repository holds the files
\* the push copied and committed.
C19_NoRemoteIsSuccess ==
    [][(result'.op = "push" /\ result'.git # <<>> /\ result'.git[3] = "none") =>
          /\ result'.status = "Ok"
          /\ tracker'.last_push = now'
          /\ tracker'.last_push >= now + 1
          /\ result'.git[1] = "ok" /\ result'.git[2] = "ok"
          /\ \A f \in result'.synced :
                f \in DOMAIN remote' /\ remote'[f].content = local[f].content]_vars

\* a push without remote has returned Ok after copying and committing a file
C19_Witness ==
    /\ result.op = "push" /\ result.status = "Ok"
    /\ result.git = <<"ok", "ok", "none">>
    /\ result.synced # {}
    /\ tracker.last_push = now
    /\ \A f \in result.synced : remote[f].content = local[f].content

\* C20: after a non-dry-run pull that returns Ok, every file the pull wrote
\* in the local tree is in the tracked-pattern record, the files copied
\* because force overrode a conflict included.
C20_CopiedFilesAreTracked ==
    [][(result'.op = "pull" /\ result'.status = "Ok" /\ ~result'.dry_run) =>
          \A f \in StepCopied : Contains(exclude', f)]_vars

\* ------------------------------------- properties: tracked-pattern record
\* no line of the record occurs twice
NoDuplicates(lines) ==
    \A i, j \in 1..Len(lines) : lines[i] = lines[j] => i = j

\* C21: whatever add, pull and init append, every pattern occurs at most once
\* in the tracked-pattern record, and an add whose patterns are all in the
\* record already leaves the record as it is.
C21_ExcludeIsSetLike ==
    [][/\ NoDuplicates(exclude')
       /\ (result'.op = "add" /\ result'.status = "Ok"
           /\ \A f \in result'.synced : Contains(exclude, f)) => exclude' = exclude]_vars

\* ------------------------------------------- properties: push, then pull
\* C22: once a push has returned Ok, the status or the pull without force
\* that follows it with no edit in between does not classify as Conflict any
\* file the push copied that was LocalAhead or Conflict before the push.
C22_PushResolvesDivergence ==
    [][(/\ result.op = "push" /\ result.status = "Ok"
        /\ result'.op \in {"status", "pull"}
        /\ remote' = remote) =>
          \A f \in result.synced :
              PullState(p_before.local, p_before.remote, tracker.last_pull, f)
                  \in {"LocalAhead", "Conflict"} => f \notin result'.conflicts]_vars

\* C23: after a non-dry-run pull with force has returned Ok, every file of the
\* project's shade subdirectory has a local copy with the same content.
C23_ForcedPullMirrorsRemote ==
    [][(result'.op = "pull" /\ result'.status = "Ok"
        /\ result'.force /\ ~result'.dry_run) =>
          \A f \in DOMAIN remote' :
              f \in DOMAIN local' /\ local'[f].content = remote'[f].content]_vars

\* C24: project names stay unique in the configuration, and an init for a name
\* that is already registered fails with AlreadyInitialized and leaves the
\* configuration, the project's watermark record, the shade repository and the
\* project tree as they were
C24_InitRejectsRegisteredName ==
    [][/\ NoDuplicates(config')
       /\ (result'.op = "init" /\ find_project(config, ProjectName)) =>
              /\ result'.status = "AlreadyInitialized"
              /\ config' = config
              /\ tracker' = tracker
              /\ remote' = remote
              /\ local' = local
              /\ exclude' = exclude]_vars

\* a second init was rejected while the watermark record and the shade
\* repository held something a fresh init would have reset
C24_Witness ==
    /\ result.op = "init"
    /\ result.status = "AlreadyInitialized"
    /\ tracker.last_pull # NoTime
    /\ tracker.last_push # NoTime
    /\ DOMAIN remote # {}

\* ------------------------------------------- properties: copy functions
\* path lies strictly below base
Inside(path, base) == starts_with(path, base) /\ path # base

\* nothing stands in the way of writing a regular file at dest
Writable(fs, dest) ==
    /\ dest \notin fs.dirs
    /\ \A k \in 1..(Len(dest) - 1) : SubSeq(dest, 1, k) \notin DOMAIN fs.files

\* where a path below src_base belongs below dest_base
DestOf(path, src_base, dest_base) ==
    join(dest_base, SubSeq(path, Len(src_base) + 1, Len(path)))

\* C25: copy_file_preserve_structure applied to a regular file src inside
\* src_base writes the file at dest_base joined with src's path relative to
\* src_base, with the content of src, over any file that was there, returns
\* that path and touches no other file; applied to a src that is not inside
\* src_base it fails and leaves the file system as it was.
C25_CopyFilePreservesStructure ==
    f_call.op = "copy_file" =>
        LET src == f_call.src
            dest == DestOf(src, f_call.src_base, f_call.dest_base)
        IN  /\ (Inside(src, f_call.src_base) /\ src \in DOMAIN f_before.files
                  /\ Writable(f_before, dest)) => f_call.ok
            /\ f_call.ok =>
                  /\ Inside(src, f_call.src_base)
                  /\ f_call.ret = <<dest>>
                  /\ dest \in DOMAIN f_fs.files
                  /\ f_fs.files[dest] = f_before.files[src]
                  /\ f_fs.files[src] = f_before.files[src]
                  /\ \A x \in DOMAIN f_fs.files \ {dest} :
                        x \in DOMAIN f_before.files /\ f_fs.files[x] = f_before.files[x]
                  /\ DOMAIN f_before.files \subseteq DOMAIN f_fs.files
            /\ ~starts_with(src, f_call.src_base) =>
                  (~f_call.ok /\ f_call.ret = <<>> /\ f_fs = f_before)

\* a file two levels below src_base was copied over a destination file of
\* another content
C25_Witness ==
    /\ f_call.op = "copy_file"
    /\ f_call.ok
    /\ Len(f_call.src) = Len(f_call.src_base) + 2
    /\ f_call.ret[1] \in DOMAIN f_before.files
    /\ f_before.files[f_call.ret[1]] # f_before.files[f_call.src]

\* a call with an existing file that lies outside src_base
C25_WitnessOutside ==
    /\ f_call.op = "copy_file"
    /\ ~starts_with(f_call.src, f_call.src_base)
    /\ f_call.src \in DOMAIN f_before.files
    /\ f_call.err = "Failed to calculate relative path"

\* the regular files a walk of src_dir finds
FilesUnder(fs, src_dir) == {e \in DOMAIN fs.files : starts_with(e, src_dir)}

\* the entries of a sequence, as a set
Range(seq) == {seq[i] : i \in 1..Len(seq)}

\* C26: copy_dir_preserve_structure over an existing tree src_dir inside
\* src_base that holds N regular files copies each of them to the same
\* relative path under dest_base with its content, and returns exactly N
\* paths: the N destinations, each once, none of them a directory.
C26_CopyDirCopiesEveryFile ==
    f_call.op = "copy_dir" =>
        LET src_dir == f_call.src
            sources == FilesUnder(f_before, src_dir)
            dests == {DestOf(e, f_call.src_base, f_call.dest_base) : e \in sources}
        IN  /\ (src_dir \in f_before.dirs /\ starts_with(src_dir, f_call.src_base)
                  /\ \A d \in dests : Writable(f_before, d)) => f_call.ok
            /\ f_call.ok =>
                  /\ \A e \in sources : Inside(e, f_call.src_base)
                  /\ Len(f_call.ret) = Cardinality(sources)
                  /\ Range(f_call.ret) = dests
                  /\ \A d \in Range(f_call.ret) : d \in DOMAIN f_fs.files /\ d \notin f_fs.dirs
                  /\ \A e \in sources :
                        LET d == DestOf(e, f_call.src_base, f_call.dest_base)
                        IN  d \in DOMAIN f_fs.files /\ f_fs.files[d] = f_before.files[e]

\* a directory with a file of its own and a file in a subdirectory was
\* copied: two files, three directories walked, two paths returned
C26_Witness ==
    /\ f_call.op = "copy_dir"
    /\ f_call.ok
    /\ f_call.src \in f_before.dirs
    /\ Len(f_call.ret) = 2
    /\ \E e \in FilesUnder(f_before, f_call.src) : Len(e) = Len(f_call.src) + 1
    /\ \E e \in FilesUnder(f_before, f_call.src) : Len(e) = Len(f_call.src) + 2

\* ------------------------------------------- properties: failing steps
\* C27: a pull whose `git pull` fails returns GitError; this happens only in
\* a pull that is not a dry run, before any file is classified, and the
\* project tree, the tracked-pattern record and the watermark record stay as
\* they were.
C27_GitPullFailureChangesNothing ==
    [][(result'.op = "pull" /\ result'.status = "GitError") =>
          /\ ~result'.dry_run
          /\ result'.git_ran
          /\ result'.conflicts = {}
          /\ result'.synced = {}
          /\ local' = local
          /\ exclude' = exclude
          /\ tracker' = tracker
          /\ lastOkPull' = lastOkPull]_vars

\* git pull failed while the shade subdirectory held a file the project tree
\* lacks, which a pull would have copied and recorded
C27_Witness ==
    /\ result.op = "pull"
    /\ result.status = "GitError"
    /\ \E f \in DOMAIN remote : f \notin DOMAIN local /\ ~Contains(exclude, f)

\* C28: a push that reaches the git steps has copied its files first, runs
\* git add, git commit and git push in this order, each only when the one
\* before it succeeded, and writes last_push, with the time of the end of the
\* push, only when add, commit and (with a remote) push all succeeded; when
\* one of them fails the push returns GitError and the watermark record is
\* as it was.
C28_PushStepOrder ==
    [][result'.op = "push" =>
          IF result'.git = <<>>
          THEN tracker' = tracker
          ELSE LET git == result'.git
               IN  /\ result'.synced # {}
                   /\ \A f \in result'.synced :
                         /\ f \in DOMAIN remote'
                         /\ remote'[f].content = local[f].content
                         /\ remote'[f].modified <= now'
                   /\ git[1] # "ok" => (git[2] = "-" /\ git[3] = "-")
                   /\ git[1] = "ok" => git[2] # "-"
                   /\ git[3] # "-" <=> (git[1] = "ok" /\ git[2] = "ok")
                   /\ tracker' # tracker =>
                         /\ git[1] = "ok" /\ git[2] = "ok" /\ git[3] \in {"none", "ok"}
                         /\ result'.status = "Ok"
                         /\ tracker' = [tracker EXCEPT !.last_push = now']
                   /\ (git[1] # "ok" \/ git[2] # "ok" \/ git[3] = "fail") =>
                         (result'.status = "GitError" /\ tracker' = tracker)
                   /\ result'.status = "Ok" => tracker'.last_push = now']_vars

\* after an earlier push had set last_push, a push copied a file, staged and
\* committed it and failed in git push: last_push is still the earlier time
C28_Witness ==
    /\ result.op = "push"
    /\ result.status = "GitError"
    /\ result.git = <<"ok", "ok", "fail">>
    /\ result.synced # {}
    /\ tracker.last_push # NoTime
    /\ tracker.last_push < now

\* C29: a pull whose copy fails partway returns an error; it is not a dry
\* run, the files copied before the failure hold the shade content, every
\* other local file is as it was, and the watermark record and the
\* tracked-pattern record are not updated.
C29_PullHasNoRollback ==
    [][(result'.op = "pull" /\ result'.status = "Io") =>
          /\ ~result'.dry_run
          /\ \A f \in result'.synced :
                /\ f \in DOMAIN local' /\ f \in DOMAIN remote'
                /\ local'[f].content = remote'[f].content
          /\ \A f \in DOMAIN local' \ result'.synced :
                f \in DOMAIN local /\ local'[f] = local[f]
          /\ DOMAIN remote' \ result'.synced # {}
          /\ tracker' = tracker
          /\ lastOkPull' = lastOkPull
          /\ exclude' = exclude]_vars

\* a pull failed after it had copied a file that is new to the project: the
\* file is there with the shade content and is not in the tracked-pattern
\* record
C29_Witness ==
    /\ result.op = "pull"
    /\ result.status = "Io"
    /\ \E f \in result.synced :
          /\ local[f].content = remote[f].content
          /\ ~Contains(exclude, f)

\* ------------------------------------------------ properties: pull twice
\* C30: a pull that directly follows a non-dry-run pull that returned Ok,
\* with the shade subdirectory as that pull left it and the local tree
\* untouched in between, returns Ok, reports no conflict, has no file to
\* copy and leaves the local tree as it is.
C30_PullIsIdempotent ==
    [][(/\ result.op = "pull" /\ result.status = "Ok" /\ ~result.dry_run
        /\ result'.op = "pull" /\ result'.status # "GitError"
        /\ remote' = remote) =>
          /\ result'.status = "Ok"
          /\ result'.conflicts = {}
          /\ result'.synced = {}
          /\ local' = local]_vars

\* a pull that copied a file and left another local file alone was repeated
\* at once and found nothing to do
C30_Witness ==
    /\ p_before.result.op = "pull"
    /\ p_before.result.status = "Ok"
    /\ ~p_before.result.dry_run
    /\ p_before.result.synced # {}
    /\ p_before.result.synced # DOMAIN p_before.local
    /\ result.op = "pull"
    /\ result.status = "Ok"
    /\ result.synced = {}
    /\ local = p_before.local
    /\ remote = p_before.remote

\* ------------------------------------------- properties: pull retried
\* C31: when a pull whose copy failed partway is run again without force,
\* on the same shade subdirectory and with the local tree as the failed pull
\* left it, none of the files the failed pull had copied is classified as
\* Conflict.
C31_FailedPullCanBeRetried ==
    [][(/\ result.op = "pull" /\ result.status = "Io"
        /\ result'.op = "pull" /\ ~result'.force /\ result'.status # "GitError"
        /\ remote' = remote) =>
          result'.conflicts \cap result.synced = {}]_vars

C33_AddIsAtomicOnFailure ==
    [][(result'.op = "add" /\ result'.status = "FileNotFound") =>
          (remote' = remote /\ exclude' = exclude)]_vars

\* ------------------------------------ properties: watermark record frame
\* C34: a pull leaves last_push as it was stored and a push leaves last_pull
\* as it was stored, whether or not they write the watermark record.
C34_OtherWatermarkKept ==
    [][/\ result'.op = "pull" => tracker'.last_push = tracker.last_push
       /\ result'.op = "push" => tracker'.last_pull = tracker.last_pull]_vars

\* a pull has written last_pull into a record that held a last_push
C34_Witness ==
    /\ result.op = "pull"
    /\ result.status = "Ok"
    /\ tracker.last_pull = now
    /\ tracker.last_push # NoTime
    /\ tracker.last_push < tracker.last_pull

\* a push has written last_push into a record that held a last_pull
C34_WitnessPush ==
    /\ result.op = "push"
    /\ result.status = "Ok"
    /\ tracker.last_push = now
    /\ tracker.last_pull # NoTime

\* --------------------------------------- properties: conflict records
\* C35: the classifier returns Conflict only for a local snapshot, a remote
\* snapshot and a watermark that are all present, so the three values pull
\* unwraps to build a ConflictInfo are there.
C35_ConflictHasAllThreeValues ==
    c_state = "Conflict" =>
        (c_local.some /\ c_remote.some /\ c_last_pull # NoTime)

\* the classifier has returned Conflict for two snapshots of equal size
C35_Witness ==
    /\ c_state = "Conflict"
    /\ c_local.some /\ c_remote.some
    /\ c_local.size = c_remote.size
    /\ c_last_pull = 0

\* ------------------------------------------- properties: project scope
\* the files of the disk that the last step created or modified
ScopeChanged == {x \in ScopePaths : s_fs'[x] # s_fs[x]}

\* C36: add and push of project P create or modify files only under P's
\* shade subdirectory and stage only files of that subdirectory; pull of
\* P copies only into P's directory, and changes the shade repository only
\* by what git pull brings.
C36_OperationsStayInsideProject ==
    [][/\ s_call'.op \in {"add", "push"} =>
             /\ \A x \in ScopeChanged : starts_with(x, project_shade_dir(s_call'.project))
             /\ \A x \in s_call'.staged : starts_with(x, project_shade_dir(s_call'.project))
       /\ s_call'.op = "pull" =>
             \A x \in ScopeChanged :
                starts_with(x, project_path(s_call'.project)) \/ x \in s_call'.fetched]_vars

\* ------------------------------------------- properties: frames
\* C37: status is read-only: a run of status, in any state and with any
\* outcome, leaves every local file, every file of the shade repository, the
\* tracked patterns, both watermarks and the configuration unchanged.
C37_StatusIsReadOnly ==
    [][result'.op = "status" =>
          /\ local' = local
          /\ remote' = remote
          /\ exclude' = exclude
          /\ tracker' = tracker
          /\ config' = config]_vars

\* status has reported a conflict in a project with tracked patterns and
\* both watermarks set
C37_Witness ==
    /\ result.op = "status"
    /\ result.status = "Ok"
    /\ result.conflicts # {}
    /\ exclude # <<>>
    /\ tracker.last_pull # NoTime
    /\ tracker.last_push # NoTime

\* C38: pull, push, add and status on a project that is not registered
\* return NotInitialized, and push of a registered project with no tracked
\* pattern returns NoFilesTracked; such a run copies no file, runs no git
\* command and changes no tracked pattern and no watermark.
C38_PreconditionFailuresChangeNothing ==
    [][/\ (result'.op \in {"pull", "push", "add", "status"} /\ ~Contains(config, ProjectName))
             => result'.status = "NotInitialized"
       /\ (result'.op = "push" /\ Contains(config, ProjectName) /\ exclude = <<>>)
             => result'.status = "NoFilesTracked"
       /\ result'.status \in {"NotInitialized", "NoFilesTracked"} =>
             /\ local' = local
             /\ remote' = remote
             /\ exclude' = exclude
             /\ tracker' = tracker
             /\ config' = config
             /\ ~result'.git_ran
             /\ result'.git = <<>>
             /\ result'.synced = {}]_vars

\* a pull was refused for a project that is not registered, although the
\* shade repository has a file the directory lacks
C38_Witness ==
    /\ result.op = "pull"
    /\ result.status = "NotInitialized"
    /\ \E f \in DOMAIN remote : f \notin DOMAIN local

\* a push was refused for a registered project that has local files and no
\* tracked pattern
C38_WitnessNoFilesTracked ==
    /\ result.op = "push"
    /\ result.status = "NoFilesTracked"
    /\ DOMAIN local # {}

====
